---- MODULE Spec2Model ----
(***************************************************************************)
(* A model of the leining-app repository:                                  *)
(*   - src/logic.py       Hebrew text normalisation, comparison, markers   *)
(*   - src/app.py         the Streamlit practice page (flash feedback)     *)
(*   - src/leining-app.py the desktop reader (audio-synchronised scroll)   *)
(*   - src/backend/main.py the /ws/audio session of the FastAPI backend    *)
(*                                                                         *)
(* A text is a sequence of Unicode code points.  A float the code computes *)
(* as a quotient of two integers is kept as that quotient, exactly; the    *)
(* floats of the reader are whole multiples of 2^-22, counted as integers. *)
(***************************************************************************)
EXTENDS Integers, Sequences, FiniteSets, TLC

VARIABLES
    \* ---- src/logic.py: one call of a pure function ----
    op,              \* the function that was called: "none" before the call
    arg_a,           \* first positional argument  (text / reference / transcribed)
    arg_b,           \* second positional argument (transcribed / word / marker_word)
    ignore_nikud,    \* the ignore_nikud keyword argument
    ret_normalize,   \* value returned by normalize_hebrew(arg_a)
    ret_compare,     \* value returned by compare_hebrew_texts(arg_a, arg_b, ignore_nikud)
    ret_marker,      \* value returned by has_reached_marker(arg_a, arg_b, ignore_nikud)
    ret_position,    \* value returned by find_word_position(arg_a, arg_b, ignore_nikud)
    \* ---- src/app.py: st.session_state of one browser session ----
    MIC_RECORDER_AVAILABLE,  \* whether streamlit_mic_recorder could be imported
    WHISPER_AVAILABLE,       \* whether faster_whisper could be imported
    session_whisper_model,   \* whether st.session_state.whisper_model holds a model
    transcription,   \* st.session_state.transcription
    show_flash,      \* st.session_state.show_flash
    reference_verse, \* st.session_state.reference_verse
    marker_word,     \* st.session_state.marker_word
    flash_log,       \* history: the last two submissions since the session began or
                     \* the marker word last changed, each [transcription, flash]
    \* ---- src/leining-app.py: the fields of the TorahReader window ----
    current_file,    \* self.current_file, None or a file name
    text,            \* self.text
    total_words,     \* self.total_words
    lines,           \* self.lines
    AUDIO_LENGTH_SECONDS,    \* self.AUDIO_LENGTH_SECONDS
    pixels_per_second,       \* self.pixels_per_second, in pixels per second
    scroll_position, \* self.scroll_position, in 1/4194304 pixel
    update_id,       \* self.update_id, the id the last self.after() returned
    pending,         \* the ids of the after() callbacks Tk still has to deliver
    start_button,    \* state of self.start_button: "normal" or "disabled"
    stop_button,     \* state of self.stop_button
    music,           \* pygame.mixer.music: None, or the file it is playing
    canvas,          \* the text items on self.canvas, each [line_index, y, fill]
    dialog,          \* the message box the last handler showed, "none" if none
    last_handler,    \* the handler that ran last
    \* ---- src/leining-app.py: one call of TorahReader.split_into_lines ----
    seg_called,      \* whether the call was made
    seg_text,        \* the text argument
    seg_chars_per_line,      \* the chars_per_line argument
    seg_raised,      \* whether the call raised an exception
    seg_lines,       \* the list the call returned
    \* ---- src/backend/main.py: one /ws/audio session ----
    whisper_model,   \* whether the global whisper_model holds a loaded model
    ws_state,        \* where websocket_audio_stream waits: "open" in receive,
                     \* "sending" in a send of the loop,
                     \* "sending_transcription" in the send of line 368,
                     \* "reporting" in the send of the handler of line 407;
                     \* "closed" once it has returned
    ws_reference_text,       \* the local reference_text of the session
    ws_marker_word,  \* the local marker_word of the session
    audio_buffer,    \* the local audio_buffer, a sequence of bytes
    ws_sent,         \* the message the server sent last, [type |-> "none"] if none
    ws_outgoing,     \* the message handed to the send the endpoint waits in and
                     \* not yet out, [type |-> "none"] if none
    ws_last,         \* the kind of the message the server handled last
    received_since_reset     \* history: bytes of the chunks received since the
                     \* start, the last clear or the last transcription attempt

logicVars ==
    <<op, arg_a, arg_b, ignore_nikud, ret_normalize, ret_compare, ret_marker,
      ret_position>>

appVars ==
    <<MIC_RECORDER_AVAILABLE, WHISPER_AVAILABLE, session_whisper_model,
      transcription, show_flash, reference_verse, marker_word, flash_log>>

readerVars ==
    <<current_file, text, total_words, lines, AUDIO_LENGTH_SECONDS,
      pixels_per_second, scroll_position, update_id, pending, start_button,
      stop_button, music, canvas, dialog, last_handler>>

segVars == <<seg_called, seg_text, seg_chars_per_line, seg_raised, seg_lines>>

wsVars ==
    <<whisper_model, ws_state, ws_reference_text, ws_marker_word, audio_buffer,
      ws_sent, ws_outgoing, ws_last, received_since_reset>>

vars == <<logicVars, appVars, readerVars, segVars, wsVars>>

\* An attribute that may not exist yet (hasattr is false), or a value that may
\* be None: None is <<>>, the value v is <<v>>.
None == <<>>
Some(v) == <<v>>
Val(x) == x[1]

-----------------------------------------------------------------------------
(* Bounds of the model. *)

\* longest text handed to the functions of logic.py
MaxLen == 3

\* the clock of the reader advances until scroll_position is this many pixels
\* below 0
MaxBackwardPixels == 8

-----------------------------------------------------------------------------
(* Code points. *)

SPACE == 32
ALEF == 1488
BET == 1489
\* U+05C7 HEBREW POINT QAMATS QATAN, the last code point of NIKUD_PATTERN
QAMATS_QATAN == 1479

\* first and last code point of the class [\u0591-\u05C7]
NIKUD_FIRST == 1425
NIKUD_LAST == 1479

\* the code points the inputs are drawn from: whitespace, two letters, a mark
Alphabet == {SPACE, ALEF, BET, QAMATS_QATAN}

\* the code points str.split() and str.strip() treat as whitespace (str.isspace)
Whitespace ==
    (9..13) \cup (28..32) \cup {133, 160, 5760} \cup (8192..8202)
        \cup {8232, 8233, 8239, 8287, 12288}

IsSpace(c) == c \in Whitespace

\* NIKUD_PATTERN with the last code point, U+05C7, left out of the class
IsNikud_ShortRange(c) == c >= NIKUD_FIRST /\ c < NIKUD_LAST

\* NIKUD_PATTERN = re.compile(r'[\u0591-\u05C7]')
IsNikud(c) == c >= NIKUD_FIRST /\ c <= NIKUD_LAST

\* every text of length at most n over the alphabet
TextsUpTo(n) == UNION {[1..k -> Alphabet] : k \in 0..n}

Texts == TextsUpTo(MaxLen)

-----------------------------------------------------------------------------
(* Python string primitives used by logic.py. *)

RECURSIVE split_acc(_, _, _)
split_acc(txt, words, cur) ==
    IF txt = <<>>
    THEN IF cur = <<>> THEN words ELSE Append(words, cur)
    ELSE IF IsSpace(Head(txt))
         THEN split_acc(Tail(txt),
                        IF cur = <<>> THEN words ELSE Append(words, cur), <<>>)
         ELSE split_acc(Tail(txt), words, Append(cur, Head(txt)))

\* str.split(): the maximal runs of non-whitespace, in order
str_split(txt) == split_acc(txt, <<>>, <<>>)

RECURSIVE str_join(_, _)
\* sep.join(words)
str_join(sep, words) ==
    IF words = <<>> THEN <<>>
    ELSE IF Len(words) = 1 THEN words[1]
    ELSE words[1] \o sep \o str_join(sep, Tail(words))

RECURSIVE str_lstrip(_)
str_lstrip(txt) ==
    IF txt # <<>> /\ IsSpace(Head(txt)) THEN str_lstrip(Tail(txt)) ELSE txt

RECURSIVE str_rstrip(_)
str_rstrip(txt) ==
    IF txt # <<>> /\ IsSpace(txt[Len(txt)])
    THEN str_rstrip(SubSeq(txt, 1, Len(txt) - 1))
    ELSE txt

\* str.strip()
str_strip(txt) == str_rstrip(str_lstrip(txt))

RECURSIVE str_contains(_, _)
\* needle in hay: the leftmost-first scan of Python's substring test
str_contains(needle, hay) ==
    IF Len(needle) <= Len(hay) /\ SubSeq(hay, 1, Len(needle)) = needle THEN TRUE
    ELSE IF hay = <<>> THEN FALSE
    ELSE str_contains(needle, Tail(hay))

-----------------------------------------------------------------------------
(* src/logic.py *)

\* NIKUD_PATTERN.sub('', text)
remove_nikud(txt) == SelectSeq(txt, LAMBDA c : ~IsNikud(c))

normalize_hebrew(txt) ==
    LET t1 == remove_nikud(txt)
        t2 == str_join(<<SPACE>>, str_split(t1))
    IN  str_strip(t2)

split_hebrew_words(txt) == str_split(txt)

\* the ignore_nikud branch with the normalisation left out
prepare_text_raw(txt, ignore) == str_strip(txt)

\* compare_hebrew_texts, the branch on ignore_nikud that prepares one argument
prepare_text(txt, ignore) ==
    IF ignore THEN normalize_hebrew(txt) ELSE str_strip(txt)

\* each distinct transcribed word counted once
count_matches_distinct(ref_words, trans_words) ==
    Cardinality({trans_words[i] : i \in 1..Len(trans_words)}
                    \cap {ref_words[j] : j \in 1..Len(ref_words)})

\* the reference words found in the transcription, instead of the reverse
count_matches_swapped(ref_words, trans_words) ==
    LET trans_words_set == {trans_words[i] : i \in 1..Len(trans_words)}
    IN  Len(SelectSeq(ref_words, LAMBDA word : word \in trans_words_set))

\* ref_words_set = set(ref_words)
\* matches = sum(1 for word in trans_words if word in ref_words_set)
count_matches(ref_words, trans_words) ==
    LET ref_words_set == {ref_words[j] : j \in 1..Len(ref_words)}
    IN  Len(SelectSeq(trans_words, LAMBDA word : word \in ref_words_set))

\* The returned tuple (exact_match, similarity); similarity is the float
\* num / den, and 0.0 is 0 / 1.
compare_hebrew_texts(reference, transcribed, ignore) ==
    LET ref_normalized == prepare_text(reference, ignore)
        trans_normalized == prepare_text(transcribed, ignore)
        exact_match == (ref_normalized = trans_normalized)
        ref_words == split_hebrew_words(ref_normalized)
        trans_words == split_hebrew_words(trans_normalized)
    IN  IF ref_words = <<>>
        THEN [exact_match |-> exact_match, num |-> 0, den |-> 1]
        ELSE [exact_match |-> exact_match,
              num |-> count_matches(ref_words, trans_words),
              den |-> Len(ref_words)]

\* the marker looked up among the words of the transcription
has_reached_marker_wordwise(transcribed, marker, ignore) ==
    LET trans_normalized == IF ignore THEN normalize_hebrew(transcribed) ELSE transcribed
        marker_normalized == IF ignore THEN normalize_hebrew(marker) ELSE marker
        words == str_split(trans_normalized)
    IN  \E i \in 1..Len(words) : words[i] = marker_normalized

has_reached_marker(transcribed, marker, ignore) ==
    LET trans_normalized == IF ignore THEN normalize_hebrew(transcribed) ELSE transcribed
        marker_normalized == IF ignore THEN normalize_hebrew(marker) ELSE marker
    IN  str_contains(marker_normalized, trans_normalized)

\* words.index(item), 0-based, with the last equal word taken for the first
list_index_last(words, item) ==
    LET found == {i \in 1..Len(words) : words[i] = item}
    IN  IF found = {} THEN -1
        ELSE (CHOOSE i \in found : \A j \in found : j <= i) - 1

\* words.index(item), 0-based; -1 stands for the ValueError the caller catches
list_index(words, item) ==
    LET found == {i \in 1..Len(words) : words[i] = item}
    IN  IF found = {} THEN -1
        ELSE (CHOOSE i \in found : \A j \in found : i <= j) - 1

find_word_position(txt, word, ignore) ==
    LET text_normalized == IF ignore THEN normalize_hebrew(txt) ELSE txt
        word_normalized == IF ignore THEN normalize_hebrew(word) ELSE word
        words == split_hebrew_words(text_normalized)
    IN  list_index(words, word_normalized)

-----------------------------------------------------------------------------
(* src/app.py: the Streamlit page.  Every user interaction reruns main() on   *)
(* the session state; one action is one rerun.                                *)

\* st.session_state.reference_verse of a new session: Genesis 1:1 with its
\* marks, 57 code points, 7 words
DefaultVerse ==
    <<1489, 1456, 1468, 1512, 1461, 1488, 1513, 1460, 1473, 1497, 1514, SPACE,
      1489, 1464, 1468, 1512, 1464, 1488, SPACE,
      1488, 1457, 1500, 1465, 1492, 1460, 1497, 1501, SPACE,
      1488, 1461, 1514, SPACE,
      1492, 1463, 1513, 1464, 1468, 1473, 1502, 1463, 1497, 1460, 1501, SPACE,
      1493, 1456, 1488, 1461, 1514, SPACE,
      1492, 1464, 1488, 1464, 1512, 1462, 1509>>

\* st.session_state.marker_word of a new session: the fifth word of the
\* verse, without marks
DefaultMarker == <<1492, 1513, 1502, 1497, 1501>>

\* what transcribe_audio returns when the session holds no model: the first
\* three words of the verse, without marks
SimulationPlaceholder ==
    <<1489, 1512, 1488, 1513, 1497, 1514, SPACE, 1489, 1512, 1488, SPACE,
      1488, 1500, 1492, 1497, 1501>>

\* the texts a user types or the recogniser hears: texts over the alphabet,
\* the default verse read back, its fifth word with and without marks, and
\* the text the simulation mode suggests
AppTexts ==
    {<<>>, <<SPACE>>, <<ALEF>>, <<BET>>, <<ALEF, SPACE, BET>>,
     <<BET, QAMATS_QATAN>>,
     DefaultVerse, DefaultMarker, SubSeq(DefaultVerse, 33, 43),
     SimulationPlaceholder}

\* the verses a user types into the "Hebrew Verse" text area
VerseTexts == {<<>>, <<ALEF, SPACE, BET>>, DefaultVerse}

check_for_marker(transcription_, marker) ==
    has_reached_marker(transcription_, marker, TRUE)

\* transcribe_audio(audio_bytes, model): the placeholder when the session
\* holds no model; "" when the transcription raises; otherwise the joined
\* segments the recogniser heard, stripped
transcribe_audio(heard, model, raises) ==
    IF ~model \/ ~WHISPER_AVAILABLE THEN SimulationPlaceholder
    ELSE IF raises THEN <<>>
    ELSE str_strip(heard)

\* the sidebar of every rerun (lines 190-202): with faster_whisper the model
\* is loaded when "Load Model" was clicked or the session holds none, and
\* loads says whether initialize_whisper_model returns one; without
\* faster_whisper the session holds none
model_after_rerun(load_clicked, loads) ==
    IF WHISPER_AVAILABLE
    THEN IF load_clicked \/ ~session_whisper_model
         THEN loads
         ELSE session_whisper_model
    ELSE FALSE

\* Whether the script gets as far as main().  Without faster_whisper the name
\* WhisperModel is not bound, and the annotation Optional[WhisperModel] of
\* line 93 raises NameError when the def statement runs: every run of the
\* script ends there, after the session state was set up (lines 79-90), and
\* no widget is ever drawn.
MainRuns == WHISPER_AVAILABLE

\* history only: the last two submissions
Logged(log, t, flash) ==
    LET e == [transcription |-> t, flash |-> flash]
    IN  IF Len(log) < 2 THEN Append(log, e) ELSE <<log[2], e>>

IdleApp ==
    /\ MIC_RECORDER_AVAILABLE = FALSE
    /\ WHISPER_AVAILABLE = FALSE
    /\ session_whisper_model = FALSE
    /\ transcription = <<>>
    /\ show_flash = FALSE
    /\ reference_verse = DefaultVerse
    /\ marker_word = DefaultMarker
    /\ flash_log = <<>>

\* the session state after the first run of the script in a new browser
\* session: lines 79-90, and the sidebar of main() when the script gets there
InitSession ==
    /\ MIC_RECORDER_AVAILABLE \in BOOLEAN
    /\ WHISPER_AVAILABLE \in BOOLEAN
    /\ session_whisper_model \in (IF WHISPER_AVAILABLE THEN BOOLEAN ELSE {FALSE})
    /\ transcription = <<>>
    /\ show_flash = FALSE
    /\ reference_verse = DefaultVerse
    /\ marker_word = DefaultMarker
    /\ flash_log = <<>>

\* the user edits the "Hebrew Verse" text area
EditReferenceVerse(verse, loads) ==
    /\ MainRuns
    /\ verse # reference_verse
    /\ session_whisper_model' = model_after_rerun(FALSE, loads)
    /\ reference_verse' = verse
    /\ UNCHANGED <<MIC_RECORDER_AVAILABLE, WHISPER_AVAILABLE, transcription,
                   show_flash, marker_word, flash_log>>
    /\ UNCHANGED <<logicVars, readerVars, segVars, wsVars>>

\* the user edits the "Marker Word" text input
EditMarkerWord(marker, loads) ==
    /\ MainRuns
    /\ marker # marker_word
    /\ session_whisper_model' = model_after_rerun(FALSE, loads)
    /\ marker_word' = marker
    /\ flash_log' = <<>>
    /\ UNCHANGED <<MIC_RECORDER_AVAILABLE, WHISPER_AVAILABLE, transcription,
                   show_flash, reference_verse>>
    /\ UNCHANGED <<logicVars, readerVars, segVars, wsVars>>

\* the "Load Model" button of the sidebar
ClickLoadModel(loads) ==
    /\ MainRuns
    /\ WHISPER_AVAILABLE
    /\ session_whisper_model' = model_after_rerun(TRUE, loads)
    /\ UNCHANGED <<MIC_RECORDER_AVAILABLE, WHISPER_AVAILABLE, transcription,
                   show_flash, reference_verse, marker_word, flash_log>>
    /\ UNCHANGED <<logicVars, readerVars, segVars, wsVars>>

\* the "Transcribe" button, on a recording in which the recogniser, if the
\* session holds one and it does not raise, hears `heard`
Transcribe(heard, raises, loads) ==
    /\ MainRuns
    /\ MIC_RECORDER_AVAILABLE
    /\ session_whisper_model' = model_after_rerun(FALSE, loads)
    /\ transcription' = transcribe_audio(heard, session_whisper_model', raises)
    /\ show_flash' = check_for_marker(transcription', marker_word)
    /\ flash_log' = Logged(flash_log, transcription', show_flash')
    /\ UNCHANGED <<MIC_RECORDER_AVAILABLE, WHISPER_AVAILABLE, reference_verse,
                   marker_word>>
    /\ UNCHANGED <<logicVars, readerVars, segVars, wsVars>>

\* the "Test Transcription" button of the simulation mode
TestTranscription(test_input, loads) ==
    /\ MainRuns
    /\ ~MIC_RECORDER_AVAILABLE
    /\ session_whisper_model' = model_after_rerun(FALSE, loads)
    /\ transcription' = test_input
    /\ show_flash' = check_for_marker(test_input, marker_word)
    /\ flash_log' = Logged(flash_log, transcription', show_flash')
    /\ UNCHANGED <<MIC_RECORDER_AVAILABLE, WHISPER_AVAILABLE, reference_verse,
                   marker_word>>
    /\ UNCHANGED <<logicVars, readerVars, segVars, wsVars>>

-----------------------------------------------------------------------------
(* src/leining-app.py: the desktop reader.                                    *)
(* time.time() returns a double.  From 2004 to 2038 its value lies between    *)
(* 2^30 and 2^31, where doubles are 2^-22 apart: every reading is a whole     *)
(* number of 2^-22 s, and so is the difference of two readings, which the     *)
(* subtraction yields without rounding.  Time is counted in 2^-22 s and       *)
(* scroll_position in 2^-22 pixel; with the whole-number speeds of the        *)
(* library below, every product, sum, remainder and comparison of update_text *)
(* is exact in doubles and is the integer operation written here.             *)

\* the readings of time.time() in one second
CLOCK_TICKS_PER_SECOND == 4194304

\* a pixel quantity in the unit of scroll_position
Scaled(px) == px * CLOCK_TICKS_PER_SECOND

\* 40 pixels per line
LINE_HEIGHT == 40
\* self.split_into_lines(self.text, 40)
CHARS_PER_LINE == 40
\* the 2 seconds subtracted from the audio length
BUFFER_SECONDS == 2
\* elapsed = min(elapsed, 0.1): the longest clock difference not above the
\* double 0.1, which lies between 419430 and 419431 units of 2^-22 s
MAX_ELAPSED == 419430
\* self.TOTAL_LINES = 7
TOTAL_LINES == 7
\* self.MAIN_LINES = 3
MAIN_LINES == 3
\* the y of the line drawn at the centre of the canvas, in pixels
CENTER_Y == 190

Min(a, b) == IF a <= b THEN a ELSE b

\* the loop of split_into_lines with the separating blank left out of the test
RECURSIVE split_lines_acc_loose(_, _, _, _, _)
split_lines_acc_loose(words, lines_, current_line, current_length, chars_per_line) ==
    IF words = <<>>
    THEN IF current_line # <<>>
         THEN Append(lines_, str_join(<<SPACE>>, current_line))
         ELSE lines_
    ELSE LET word == Head(words)
         IN  IF current_length + Len(word) <= chars_per_line
             THEN split_lines_acc_loose(Tail(words), lines_, Append(current_line, word),
                                        current_length + Len(word) + 1, chars_per_line)
             ELSE split_lines_acc_loose(Tail(words),
                                        Append(lines_, str_join(<<SPACE>>, current_line)),
                                        <<word>>, Len(word), chars_per_line)

\* the loop of split_into_lines, one iteration per word
RECURSIVE split_lines_acc(_, _, _, _, _)
split_lines_acc(words, lines_, current_line, current_length, chars_per_line) ==
    IF words = <<>>
    THEN IF current_line # <<>>
         THEN Append(lines_, str_join(<<SPACE>>, current_line))
         ELSE lines_
    ELSE LET word == Head(words)
         IN  IF current_length + Len(word) + 1 <= chars_per_line
             THEN split_lines_acc(Tail(words), lines_, Append(current_line, word),
                                  current_length + Len(word) + 1, chars_per_line)
             ELSE split_lines_acc(Tail(words),
                                  Append(lines_, str_join(<<SPACE>>, current_line)),
                                  <<word>>, Len(word), chars_per_line)

\* split_into_lines with every line cut to chars_per_line characters
split_into_lines_truncating(text_, chars_per_line) ==
    LET whole == split_lines_acc(str_split(text_), <<>>, <<>>, 0, chars_per_line)
    IN  [i \in 1..Len(whole) |->
            SubSeq(whole[i], 1, Min(Len(whole[i]), chars_per_line))]

split_into_lines(text_, chars_per_line) ==
    split_lines_acc(str_split(text_), <<>>, <<>>, 0, chars_per_line)

\* bidi.algorithm.get_display on a line of right-to-left text: the visual order
get_display(line) == [i \in 1..Len(line) |-> line[Len(line) + 1 - i]]

\* int(a / b) for b > 0: the quotient, truncated towards zero
int_div(a, b) == IF a >= 0 THEN a \div b ELSE -((-a) \div b)

\* get_color_for_opacity, the opacity in tenths
get_color_for_opacity(opacity) ==
    IF opacity >= 9 THEN "black"
    ELSE IF opacity >= 6 THEN "gray30"
    ELSE IF opacity >= 3 THEN "gray50"
    ELSE "gray70"

\* the opacity update_text and draw_initial_text give a line, in tenths
opacity_at(distance_from_center) ==
    IF distance_from_center <= MAIN_LINES \div 2 THEN 10 ELSE 3

Abs(n) == IF n >= 0 THEN n ELSE -n

\* the text items draw_initial_text creates, after self.canvas.delete("all")
initial_items(lines_) ==
    {[line_index |-> i,
      y |-> Scaled(CENTER_Y + (i - MAIN_LINES \div 2) * LINE_HEIGHT),
      fill |-> get_color_for_opacity(opacity_at(Abs(i - MAIN_LINES \div 2)))] :
        i \in 0..(Min(TOTAL_LINES, Len(lines_)) - 1)}

\* the text items update_text creates, after self.canvas.delete("all"), once
\* scroll_position is position
visible_items(position, lines_) ==
    LET center_line_index == int_div(position, Scaled(LINE_HEIGHT))
        half == (TOTAL_LINES - 1) \div 2
    IN  {[line_index |-> center_line_index + i,
          y |-> Scaled(CENTER_Y) + i * Scaled(LINE_HEIGHT)
                    - (position % Scaled(LINE_HEIGHT)),
          fill |-> get_color_for_opacity(opacity_at(Abs(i)))] :
            i \in {k \in (-half)..half :
                      0 <= center_line_index + k /\ center_line_index + k < Len(lines_)}}

\* a word of n letters
WordOf(n) == [i \in 1..n |-> ALEF]

\* The keriyos folder: each reading's text and the length of its mp3 in whole
\* seconds, int(audio.info.length).  Every quotient distance / (length - 2)
\* below is a whole number.
Library ==
    [one_line_3s   |-> [text |-> WordOf(5) \o <<SPACE>> \o WordOf(4), length |-> 3],
     one_line_4s   |-> [text |-> WordOf(5), length |-> 4],
     two_lines_4s  |-> [text |-> WordOf(20) \o <<SPACE>> \o WordOf(20), length |-> 4],
     three_lines_5s |-> [text |-> WordOf(20) \o <<SPACE>> \o WordOf(20)
                                     \o <<SPACE>> \o WordOf(20), length |-> 5],
     long_word_4s  |-> [text |-> WordOf(40), length |-> 4],
     one_line_1s   |-> [text |-> WordOf(5), length |-> 1],
     one_line_2s   |-> [text |-> WordOf(5), length |-> 2],
     one_line_0s   |-> [text |-> WordOf(5), length |-> 0],
     no_words_5s   |-> [text |-> <<SPACE>>, length |-> 5]]

\* the names scan_files puts in the list box
FileNames == DOMAIN Library

\* what load_file reads from each file, before the timing is computed:
\* self.text, self.total_words = len(self.text.split()), and self.lines, the
\* lines of split_into_lines(self.text, 40) each passed through get_display
Readings ==
    [filename \in FileNames |->
        LET split == split_into_lines(Library[filename].text, CHARS_PER_LINE)
        IN  [text |-> Library[filename].text,
             total_words |-> Len(str_split(Library[filename].text)),
             lines |-> [i \in 1..Len(split) |-> get_display(split[i])],
             length |-> Library[filename].length]]

\* time.time() - self.last_update when Tk delivers an after(33, ...) callback,
\* in 2^-22 s: 1/16 s, below the limit of 0.1 s, and 1/2 s, above it
TickDeltas == {262144, 2097152}

\* the same difference when start_reading calls update_text itself, an outcome
\* of the clock: 0 when the clock is coarse and returns the same reading twice
\* (a 15.6 ms system timer), otherwise the few microseconds canvas.delete
\* takes, here 32 units = 2^-17 s
StartDeltas == {0, 32}

\* The clock differences supplied to a callback.  In the code nothing bounds
\* scroll_position from below when pixels_per_second is negative; once it is
\* MaxBackwardPixels below 0 the clock is taken to stand still, so that every
\* pending callback is still delivered and scroll_position stays where it is.
ClockDifferences ==
    IF scroll_position # None /\ Val(scroll_position) <= -Scaled(MaxBackwardPixels)
    THEN {0}
    ELSE TickDeltas

TimerIds == {"after#1", "after#2", "after#3"}

\* the id self.after() returns: one Tk has not handed out to a live callback
NewTimerId == CHOOSE id \in TimerIds : id \notin pending /\ Some(id) # update_id

\* the test of update_text with the bound included
should_continue_inclusive(position, lines_) ==
    position <= Scaled(Len(lines_) * LINE_HEIGHT)

\* if self.scroll_position < (len(self.lines) * 40)
should_continue(position, lines_) ==
    position < Scaled(Len(lines_) * LINE_HEIGHT)

\* scroll_position after update_text ran on a clock difference of delta.  A
\* difference above 0.1 is replaced by the double 0.1, and the double product
\* pixels_per_second * 0.1 is the tenth of pixels_per_second for the speeds of
\* the library (20, 40 and -40 pixels per second)
advanced(position, pps, delta) ==
    IF delta <= MAX_ELAPSED
    THEN position + pps * delta
    ELSE position + (pps * CLOCK_TICKS_PER_SECOND) \div 10

IdleReader ==
    /\ current_file = None
    /\ text = None
    /\ total_words = None
    /\ lines = None
    /\ AUDIO_LENGTH_SECONDS = None
    /\ pixels_per_second = None
    /\ scroll_position = None
    /\ update_id = None
    /\ pending = {}
    /\ start_button = "normal"
    /\ stop_button = "disabled"
    /\ music = None
    /\ canvas = {}
    /\ dialog = "none"
    /\ last_handler = "__init__"

\* TorahReader.__init__
InitReader == IdleReader

\* stop_reading without the after_cancel
StopEffect_NoCancel ==
    /\ music' = None
    /\ start_button' = "normal"
    /\ stop_button' = "disabled"
    /\ pending' = pending

\* stop_reading, the fields it writes
StopEffect ==
    /\ music' = None
    /\ start_button' = "normal"
    /\ stop_button' = "disabled"
    /\ pending' = IF update_id # None THEN pending \ {Val(update_id)} ELSE pending

\* the Stop button
StopReading ==
    /\ stop_button = "normal"
    /\ StopEffect
    /\ dialog' = "none"
    /\ last_handler' = "stop_reading"
    /\ UNCHANGED <<current_file, text, total_words, lines, AUDIO_LENGTH_SECONDS,
                   pixels_per_second, scroll_position, update_id, canvas>>
    /\ UNCHANGED <<logicVars, appVars, segVars, wsVars>>

\* on_file_select with a selection, and the load_file it calls
OnFileSelect(filename) ==
    LET file == Readings[filename]
        new_lines == file.lines
        n_words == file.total_words
        \* the first statement that raises, "" when none does
        raised == IF file.length = 0 THEN "WORDS_PER_MINUTE"
                  ELSE IF n_words = 0 THEN "total_duration"
                  ELSE IF file.length - BUFFER_SECONDS = 0 THEN "pixels_per_second"
                  ELSE ""
    IN  /\ current_file' = Some(filename)
        /\ StopEffect
        /\ text' = Some(file.text)
        /\ total_words' = Some(n_words)
        /\ lines' = Some(new_lines)
        /\ AUDIO_LENGTH_SECONDS' = Some(file.length)
        /\ pixels_per_second' =
              IF raised = ""
              THEN Some((Len(new_lines) * LINE_HEIGHT) \div (file.length - BUFFER_SECONDS))
              ELSE pixels_per_second
        /\ canvas' = IF raised = "" THEN initial_items(new_lines) ELSE canvas
        /\ dialog' = IF raised = "" THEN "none" ELSE "Error loading file"
        /\ last_handler' = "on_file_select"
        /\ UNCHANGED <<scroll_position, update_id>>
        /\ UNCHANGED <<logicVars, appVars, segVars, wsVars>>

\* update_text, entered with scroll_position = position, a clock difference
\* of delta and the callbacks in queue still to deliver: the fields it writes
UpdateEffect(position, delta, queue) ==
    LET new_position == advanced(position, Val(pixels_per_second), delta)
    IN  /\ scroll_position' = Some(new_position)
        /\ canvas' = visible_items(new_position, Val(lines))
        /\ IF should_continue(new_position, Val(lines))
           THEN /\ update_id' = Some(NewTimerId)
                /\ pending' = queue \cup {NewTimerId}
           ELSE /\ pending' = queue
                /\ UNCHANGED update_id

\* the Start button, were it left enabled while a reading runs
StartReading_StartLeftEnabled ==
    /\ start_button = "normal"
    /\ last_handler' = "start_reading"
    /\ UNCHANGED <<current_file, text, total_words, lines, AUDIO_LENGTH_SECONDS,
                   pixels_per_second>>
    /\ UNCHANGED <<logicVars, appVars, segVars, wsVars>>
    /\ IF current_file = None
       THEN /\ dialog' = "Please select a file first"
            /\ UNCHANGED <<scroll_position, update_id, pending, start_button,
                           stop_button, music, canvas>>
       ELSE /\ music' = current_file
            /\ start_button' = start_button
            /\ stop_button' = "normal"
            /\ IF pixels_per_second = None
               THEN \* update_text clears the canvas and raises AttributeError,
                    \* caught by start_reading
                    /\ scroll_position' = Some(0)
                    /\ canvas' = {}
                    /\ dialog' = "Could not start playback"
                    /\ UNCHANGED <<update_id, pending>>
               ELSE /\ \E delta \in StartDeltas : UpdateEffect(0, delta, pending)
                    /\ dialog' = "none"

\* the Start button
StartReading ==
    /\ start_button = "normal"
    /\ last_handler' = "start_reading"
    /\ UNCHANGED <<current_file, text, total_words, lines, AUDIO_LENGTH_SECONDS,
                   pixels_per_second>>
    /\ UNCHANGED <<logicVars, appVars, segVars, wsVars>>
    /\ IF current_file = None
       THEN /\ dialog' = "Please select a file first"
            /\ UNCHANGED <<scroll_position, update_id, pending, start_button,
                           stop_button, music, canvas>>
       ELSE /\ music' = current_file
            /\ start_button' = "disabled"
            /\ stop_button' = "normal"
            /\ IF pixels_per_second = None
               THEN \* update_text clears the canvas and raises AttributeError,
                    \* caught by start_reading
                    /\ scroll_position' = Some(0)
                    /\ canvas' = {}
                    /\ dialog' = "Could not start playback"
                    /\ UNCHANGED <<update_id, pending>>
               ELSE /\ \E delta \in StartDeltas : UpdateEffect(0, delta, pending)
                    /\ dialog' = "none"

\* Tk delivers a pending after() callback: update_text
UpdateText(id, delta) ==
    /\ id \in pending
    /\ UpdateEffect(Val(scroll_position), delta, pending \ {id})
    /\ dialog' = "none"
    /\ last_handler' = "update_text"
    /\ UNCHANGED <<current_file, text, total_words, lines, AUDIO_LENGTH_SECONDS,
                   pixels_per_second, start_button, stop_button, music>>
    /\ UNCHANGED <<logicVars, appVars, segVars, wsVars>>

-----------------------------------------------------------------------------
(* src/backend/main.py: one session of the /ws/audio endpoint.  The endpoint  *)
(* is a coroutine: it runs from one await to the next, and other requests are *)
(* served while it waits.  One action is one such run: from the frame that    *)
(* receive returns to the send the endpoint then waits in; the message going  *)
(* out; and from the return (or the exception) of the send to the next await. *)
(* load_model is the POST /api/model/load of another client.                  *)

\* most bytes the session is followed to hold in audio_buffer
MaxBufferBytes == 3

\* most bytes in one binary frame
MaxChunkBytes == 2

ByteValues == {0, 255}

\* the binary frames a client sends
WsChunks == UNION {[1..k -> ByteValues] : k \in 0..MaxChunkBytes}

\* the reference_text and marker_word values of a config message; <<>> is also
\* the default of data.get(..., "")
WsTexts == {<<>>, <<ALEF>>, <<BET>>, <<ALEF, SPACE, BET>>}

\* what the recogniser hears in a buffer: the joined texts of its segments
WsHeard == {<<>>, <<ALEF>>, <<SPACE, BET>>, <<ALEF, SPACE, BET>>}

NoMessage == [type |-> "none"]

IdleWs ==
    /\ whisper_model = FALSE
    /\ ws_state = "closed"
    /\ ws_reference_text = <<>>
    /\ ws_marker_word = <<>>
    /\ audio_buffer = <<>>
    /\ ws_sent = NoMessage
    /\ ws_outgoing = NoMessage
    /\ ws_last = "none"
    /\ received_since_reset = 0

\* websocket.accept() and the session state of lines 299-303; the startup
\* event has loaded the model or has not
InitWs ==
    /\ whisper_model \in BOOLEAN
    /\ ws_state = "open"
    /\ ws_reference_text = <<>>
    /\ ws_marker_word = <<>>
    /\ audio_buffer = <<>>
    /\ ws_sent = NoMessage
    /\ ws_outgoing = NoMessage
    /\ ws_last = "accept"
    /\ received_since_reset = 0

\* the finally clause of the transcription, were the buffer kept
buffer_after_transcription_kept(buffer) == buffer

\* the finally clause of the transcription: audio_buffer.clear()
buffer_after_transcription(buffer) == <<>>

\* " ".join([segment.text for segment in segments]).strip()
ws_transcription(heard) == str_strip(heard)

\* the "transcription" message for what was heard
transcription_message(heard, reference, marker) ==
    LET transcription_ == ws_transcription(heard)
        compared == IF reference # <<>>
                    THEN compare_hebrew_texts(reference, transcription_, TRUE)
                    ELSE [exact_match |-> FALSE, num |-> 0, den |-> 1]
    IN  [type |-> "transcription",
         transcription |-> transcription_,
         exact_match |-> compared.exact_match,
         similarity |-> [num |-> compared.num, den |-> compared.den],
         marker_reached |-> IF marker # <<>>
                            THEN has_reached_marker(transcription_, marker, TRUE)
                            ELSE FALSE]

\* POST /api/model/load succeeds
LoadModel ==
    /\ whisper_model' = TRUE
    /\ UNCHANGED <<ws_state, ws_reference_text, ws_marker_word, audio_buffer,
                   ws_sent, ws_outgoing, ws_last, received_since_reset>>
    /\ UNCHANGED <<logicVars, appVars, readerVars, segVars>>

\* the message of the handler of line 407 for an exception e
ErrorReport == [type |-> "error", message |-> "str(e)"]

\* the exceptions a send raises
SendExceptions == {"WebSocketDisconnect", "Exception"}

\* await websocket.send_json(message) inside the loop: the endpoint waits in
\* the send
Reply(message) ==
    /\ ws_outgoing' = message
    /\ ws_state' = "sending"

\* an exception other than WebSocketDisconnect leaves the loop: the handler of
\* line 407 sends its report and the endpoint waits in that send
Report ==
    /\ ws_outgoing' = ErrorReport
    /\ ws_state' = "reporting"

\* a text frame {"type": "config", ...}
WsConfig(reference, marker) ==
    /\ ws_state = "open"
    /\ ws_reference_text' = reference
    /\ ws_marker_word' = marker
    /\ Reply([type |-> "config_ack", reference_text |-> reference,
              marker_word |-> marker])
    /\ ws_last' = "config"
    /\ UNCHANGED <<whisper_model, audio_buffer, ws_sent, received_since_reset>>
    /\ UNCHANGED <<logicVars, appVars, readerVars, segVars>>

\* a text frame {"type": "transcribe"}, up to the send of the answer; raises
\* says whether whisper_model.transcribe raises, heard is what it hears
\* otherwise
WsTranscribe(heard, raises) ==
    /\ ws_state = "open"
    /\ ws_last' = "transcribe"
    /\ UNCHANGED <<whisper_model, ws_reference_text, ws_marker_word, ws_sent>>
    /\ UNCHANGED <<logicVars, appVars, readerVars, segVars>>
    /\ IF ~whisper_model
       THEN /\ Reply([type |-> "error", message |-> "Whisper model not loaded"])
            /\ UNCHANGED <<audio_buffer, received_since_reset>>
       ELSE IF Len(audio_buffer) = 0
       THEN /\ Reply([type |-> "error", message |-> "No audio data to transcribe"])
            /\ UNCHANGED <<audio_buffer, received_since_reset>>
       ELSE IF raises
       THEN \* the finally clause runs and the exception leaves the loop
            /\ audio_buffer' = buffer_after_transcription(audio_buffer)
            /\ received_since_reset' = 0
            /\ Report
       ELSE \* the endpoint waits in the send of line 368, the finally clause
            \* still to run
            /\ ws_outgoing' = transcription_message(heard, ws_reference_text,
                                                    ws_marker_word)
            /\ ws_state' = "sending_transcription"
            /\ UNCHANGED <<audio_buffer, received_since_reset>>

\* a text frame {"type": "clear"}
WsClear ==
    /\ ws_state = "open"
    /\ audio_buffer' = <<>>
    /\ received_since_reset' = 0
    /\ Reply([type |-> "buffer_cleared"])
    /\ ws_last' = "clear"
    /\ UNCHANGED <<whisper_model, ws_reference_text, ws_marker_word, ws_sent>>
    /\ UNCHANGED <<logicVars, appVars, readerVars, segVars>>

\* a text frame with a JSON object of another type, or of none: no branch runs
WsOtherType ==
    /\ ws_state = "open"
    /\ ws_last' = "other"
    /\ UNCHANGED <<whisper_model, ws_state, ws_reference_text, ws_marker_word,
                   audio_buffer, ws_sent, ws_outgoing, received_since_reset>>
    /\ UNCHANGED <<logicVars, appVars, readerVars, segVars>>

\* a text frame that is not JSON
WsInvalidJson ==
    /\ ws_state = "open"
    /\ Reply([type |-> "error", message |-> "Invalid JSON format"])
    /\ ws_last' = "invalid_json"
    /\ UNCHANGED <<whisper_model, ws_reference_text, ws_marker_word,
                   audio_buffer, ws_sent, received_since_reset>>
    /\ UNCHANGED <<logicVars, appVars, readerVars, segVars>>

\* a text frame whose JSON value is not an object: data.get raises
\* AttributeError, which leaves the loop
WsJsonNotObject ==
    /\ ws_state = "open"
    /\ Report
    /\ ws_last' = "json_not_object"
    /\ UNCHANGED <<whisper_model, ws_reference_text, ws_marker_word, audio_buffer,
                   ws_sent, received_since_reset>>
    /\ UNCHANGED <<logicVars, appVars, readerVars, segVars>>

\* a binary frame
WsBytes(audio_chunk) ==
    /\ ws_state = "open"
    /\ Len(audio_buffer) + Len(audio_chunk) <= MaxBufferBytes
    /\ audio_buffer' = audio_buffer \o audio_chunk
    /\ received_since_reset' = received_since_reset + Len(audio_chunk)
    /\ Reply([type |-> "audio_received", buffer_size |-> Len(audio_buffer')])
    /\ ws_last' = "bytes"
    /\ UNCHANGED <<whisper_model, ws_reference_text, ws_marker_word, ws_sent>>
    /\ UNCHANGED <<logicVars, appVars, readerVars, segVars>>

\* the message of the send the endpoint waits in goes out to the client
WsSendGoesOut ==
    /\ ws_state \in {"sending", "sending_transcription", "reporting"}
    /\ ws_outgoing # NoMessage
    /\ ws_sent' = ws_outgoing
    /\ ws_outgoing' = NoMessage
    /\ UNCHANGED <<whisper_model, ws_state, ws_reference_text, ws_marker_word,
                   audio_buffer, ws_last, received_since_reset>>
    /\ UNCHANGED <<logicVars, appVars, readerVars, segVars>>

\* the send returns: after the send of a transcription the finally clause
\* runs; the loop goes on, or, after the report of the handler, the endpoint
\* returns
WsSendReturns ==
    /\ ws_state \in {"sending", "sending_transcription", "reporting"}
    /\ ws_outgoing = NoMessage
    /\ ws_state' = IF ws_state = "reporting" THEN "closed" ELSE "open"
    /\ IF ws_state = "sending_transcription"
       THEN /\ audio_buffer' = buffer_after_transcription(audio_buffer)
            /\ received_since_reset' = 0
       ELSE UNCHANGED <<audio_buffer, received_since_reset>>
    /\ UNCHANGED <<whisper_model, ws_reference_text, ws_marker_word, ws_sent,
                   ws_outgoing, ws_last>>
    /\ UNCHANGED <<logicVars, appVars, readerVars, segVars>>

\* the send raises and its message is not sent.  After the send of a
\* transcription the finally clause runs.  From a send of the loop
\* WebSocketDisconnect ends the endpoint and another exception goes to the
\* handler of line 407, which sends its report; the send of that report is
\* guarded by a bare except, and the endpoint returns.
WsSendRaises(exception) ==
    /\ ws_state \in {"sending", "sending_transcription", "reporting"}
    /\ ws_outgoing # NoMessage
    /\ IF ws_state = "sending_transcription"
       THEN /\ audio_buffer' = buffer_after_transcription(audio_buffer)
            /\ received_since_reset' = 0
       ELSE UNCHANGED <<audio_buffer, received_since_reset>>
    /\ IF ws_state = "reporting" \/ exception = "WebSocketDisconnect"
       THEN ws_state' = "closed" /\ ws_outgoing' = NoMessage
       ELSE Report
    /\ UNCHANGED <<whisper_model, ws_reference_text, ws_marker_word, ws_sent,
                   ws_last>>
    /\ UNCHANGED <<logicVars, appVars, readerVars, segVars>>

\* the client disconnects while the endpoint waits in receive: receive
\* returns the disconnect message, which no branch handles, the next receive
\* raises RuntimeError, and the report of the handler cannot be sent
WsDisconnect ==
    /\ ws_state = "open"
    /\ ws_state' = "closed"
    /\ ws_last' = "disconnect"
    /\ UNCHANGED <<whisper_model, ws_reference_text, ws_marker_word, audio_buffer,
                   ws_sent, ws_outgoing, received_since_reset>>
    /\ UNCHANGED <<logicVars, appVars, readerVars, segVars>>

-----------------------------------------------------------------------------
(* One call of TorahReader.split_into_lines on arbitrary arguments. *)

\* longest text handed to split_into_lines
MaxSegLen == 5

\* largest chars_per_line handed to split_into_lines
MaxWidth == 4

SegAlphabet == {SPACE, ALEF, BET}

SegTexts == UNION {[1..k -> SegAlphabet] : k \in 0..MaxSegLen}

SegWidths == (-1)..MaxWidth

IdleSegmenter ==
    /\ seg_called = FALSE
    /\ seg_text = <<>>
    /\ seg_chars_per_line = CHARS_PER_LINE
    /\ seg_raised = FALSE
    /\ seg_lines = <<>>

InitSegmenter ==
    /\ seg_called = FALSE
    /\ seg_text \in SegTexts
    /\ seg_chars_per_line \in SegWidths
    /\ seg_raised = FALSE
    /\ seg_lines = <<>>

\* split_into_lines(seg_text, seg_chars_per_line): it has no raise statement
\* and no operation that fails on a str and an int
CallSplitIntoLines ==
    /\ ~seg_called
    /\ seg_called' = TRUE
    /\ seg_raised' = FALSE
    /\ seg_lines' = split_into_lines(seg_text, seg_chars_per_line)
    /\ UNCHANGED <<seg_text, seg_chars_per_line>>
    /\ UNCHANGED <<logicVars, appVars, readerVars, wsVars>>

-----------------------------------------------------------------------------
(* One call of a function of logic.py on arbitrary arguments. *)

NoCompare == [exact_match |-> FALSE, num |-> 0, den |-> 1]

IdleLogic ==
    /\ op = "none"
    /\ arg_a = <<>>
    /\ arg_b = <<>>
    /\ ignore_nikud = TRUE
    /\ ret_normalize = <<>>
    /\ ret_compare = NoCompare
    /\ ret_marker = FALSE
    /\ ret_position = -1

InitLogic ==
    /\ op = "none"
    /\ arg_a \in Texts
    /\ arg_b \in Texts
    /\ ignore_nikud \in BOOLEAN
    /\ ret_normalize = <<>>
    /\ ret_compare = NoCompare
    /\ ret_marker = FALSE
    /\ ret_position = -1
    /\ IdleApp
    /\ IdleReader
    /\ IdleSegmenter
    /\ IdleWs

CallNormalize ==
    /\ op = "none"
    /\ op' = "normalize_hebrew"
    /\ ret_normalize' = normalize_hebrew(arg_a)
    /\ UNCHANGED <<arg_a, arg_b, ignore_nikud, ret_compare, ret_marker, ret_position>>
    /\ UNCHANGED <<appVars, readerVars, segVars, wsVars>>

CallCompare ==
    /\ op = "none"
    /\ op' = "compare_hebrew_texts"
    /\ ret_compare' = compare_hebrew_texts(arg_a, arg_b, ignore_nikud)
    /\ UNCHANGED <<arg_a, arg_b, ignore_nikud, ret_normalize, ret_marker, ret_position>>
    /\ UNCHANGED <<appVars, readerVars, segVars, wsVars>>

CallMarker ==
    /\ op = "none"
    /\ op' = "has_reached_marker"
    /\ ret_marker' = has_reached_marker(arg_a, arg_b, ignore_nikud)
    /\ UNCHANGED <<arg_a, arg_b, ignore_nikud, ret_normalize, ret_compare, ret_position>>
    /\ UNCHANGED <<appVars, readerVars, segVars, wsVars>>

CallFind ==
    /\ op = "none"
    /\ op' = "find_word_position"
    /\ ret_position' = find_word_position(arg_a, arg_b, ignore_nikud)
    /\ UNCHANGED <<arg_a, arg_b, ignore_nikud, ret_normalize, ret_compare, ret_marker>>
    /\ UNCHANGED <<appVars, readerVars, segVars, wsVars>>

NextLogic == CallNormalize \/ CallCompare \/ CallMarker \/ CallFind

SpecLogic == InitLogic /\ [][NextLogic]_vars

-----------------------------------------------------------------------------
(* Properties of logic.py, checked under SpecLogic. *)

InNikudRange(c) == c \in NIKUD_FIRST..NIKUD_LAST

\* no mark, no whitespace at either end, no two whitespace characters in a row
InNormalForm(t) ==
    /\ \A i \in 1..Len(t) : ~InNikudRange(t[i])
    /\ t # <<>> => (~IsSpace(t[1]) /\ ~IsSpace(t[Len(t)]))
    /\ \A i \in 1..(Len(t) - 1) : ~(IsSpace(t[i]) /\ IsSpace(t[i + 1]))

\* the text holds a character that survives the preparation as part of a word
HasWord(t, ignore) ==
    \E i \in 1..Len(t) : ~IsSpace(t[i]) /\ (ignore => ~InNikudRange(t[i]))

\* the words of a text once its marks are dropped
WordsSansMarks(t) == str_split(SelectSeq(t, LAMBDA c : ~InNikudRange(c)))

\* the words compare_hebrew_texts works on
PreparedWords(t, ignore) == IF ignore THEN WordsSansMarks(t) ELSE str_split(t)

WordOrders(n) == {p \in [1..n -> 1..n] : \A i, j \in 1..n : p[i] = p[j] => i = j}

\* C1: normalize_hebrew(t) is in normal form (no code point of U+0591..U+05C7,
\* no leading or trailing whitespace, no two adjacent whitespace characters),
\* the empty text maps to the empty text, and normalising the result again
\* changes nothing.
C1_NormalizeNormalFormIdempotent ==
    op = "normalize_hebrew" =>
        /\ InNormalForm(ret_normalize)
        /\ (arg_a = <<>> => ret_normalize = <<>>)
        /\ normalize_hebrew(ret_normalize) = ret_normalize

\* a text with leading whitespace and a mark was normalised to its one letter
C1_Witness ==
    /\ op = "normalize_hebrew"
    /\ arg_a = <<SPACE, ALEF, QAMATS_QATAN>>
    /\ ret_normalize = <<ALEF>>

\* C2: the similarity returned by compare_hebrew_texts lies in [0, 1] for every
\* pair of texts and either value of ignore_nikud.
C2_SimilarityInUnitInterval ==
    op = "compare_hebrew_texts" =>
        (0 <= ret_compare.num /\ ret_compare.num <= ret_compare.den)

\* C3 as stated: compare_hebrew_texts(ref, ref) is (True, 1.0) for every
\* non-empty ref, texts of whitespace or marks only included.
C3_SelfCompareAnyNonEmpty ==
    (op = "compare_hebrew_texts" /\ arg_a = arg_b /\ arg_a # <<>>) =>
        (ret_compare.exact_match /\ ret_compare.num = ret_compare.den)

\* C3 amended: compare_hebrew_texts(ref, ref) is (True, 1.0) for every ref that
\* keeps at least one word after the preparation, and (True, 0.0) for a ref
\* that keeps none (empty, whitespace only or, with ignore_nikud, marks only).
C3_SelfCompareWithWords ==
    (op = "compare_hebrew_texts" /\ arg_a = arg_b) =>
        /\ ret_compare.exact_match
        /\ IF HasWord(arg_a, ignore_nikud)
           THEN ret_compare.num = ret_compare.den
           ELSE ret_compare.num = 0 /\ ret_compare.den = 1

\* a reference of two words was compared with itself
C3_Witness ==
    /\ op = "compare_hebrew_texts"
    /\ arg_a = arg_b
    /\ ret_compare.den = 2
    /\ ret_compare.num = 2

\* C4: exact_match is True exactly when the normalised texts are equal (with
\* ignore_nikud=False, when the trimmed texts are equal); an exact match on a
\* reference with a word has similarity 1.0; two texts with the same words
\* once marks are dropped compare as (True, 1.0) under ignore_nikud=True.
C4_ExactMatchIsNormalizedEquality ==
    op = "compare_hebrew_texts" =>
        /\ ignore_nikud =>
              (ret_compare.exact_match <=>
                  normalize_hebrew(arg_a) = normalize_hebrew(arg_b))
        /\ ~ignore_nikud =>
              (ret_compare.exact_match <=> str_strip(arg_a) = str_strip(arg_b))
        /\ (ret_compare.exact_match /\ HasWord(arg_a, ignore_nikud)) =>
              ret_compare.num = ret_compare.den
        /\ (ignore_nikud /\ WordsSansMarks(arg_a) = WordsSansMarks(arg_b)
                /\ WordsSansMarks(arg_a) # <<>>) =>
              (ret_compare.exact_match /\ ret_compare.num = ret_compare.den)

\* two different texts, one carrying a mark, matched exactly with similarity 1.0
C4_Witness ==
    /\ op = "compare_hebrew_texts"
    /\ ignore_nikud
    /\ arg_a # arg_b
    /\ \E i \in 1..Len(arg_a) : InNikudRange(arg_a[i])
    /\ ret_compare.exact_match
    /\ ret_compare.num = ret_compare.den
    /\ HasWord(arg_a, TRUE)

\* C5: similarity = (occurrences in the transcribed word list that are members
\* of the set of reference words) / (number of reference words, duplicates
\* counted), whatever the order of the transcribed words; with no reference
\* word the similarity is 0.0 and exact_match says whether the transcription
\* prepares to the empty text too.
C5_SimilarityIsMatchRatio ==
    op = "compare_hebrew_texts" =>
        LET rw == PreparedWords(arg_a, ignore_nikud)
            tw == PreparedWords(arg_b, ignore_nikud)
            hits == {i \in 1..Len(tw) : \E j \in 1..Len(rw) : rw[j] = tw[i]}
        IN  IF rw = <<>>
            THEN /\ ret_compare.num = 0
                 /\ ret_compare.den = 1
                 /\ ret_compare.exact_match <=> ~HasWord(arg_b, ignore_nikud)
            ELSE /\ ret_compare.num = Cardinality(hits)
                 /\ ret_compare.den = Len(rw)
                 /\ \A p \in WordOrders(Len(tw)) :
                        LET shuffled == str_join(<<SPACE>>, [i \in 1..Len(tw) |-> tw[p[i]]])
                            again == compare_hebrew_texts(arg_a, shuffled, ignore_nikud)
                        IN  again.num = ret_compare.num /\ again.den = ret_compare.den

\* a transcription of two words, the second of them the reference word
C5_Witness ==
    /\ op = "compare_hebrew_texts"
    /\ arg_a = <<ALEF>>
    /\ arg_b = <<BET, SPACE, ALEF>>
    /\ ret_compare.num = 1
    /\ ret_compare.den = 1

\* C6: has_reached_marker is True exactly when the (normalised) marker is a
\* contiguous substring of the (normalised) transcription; a marker that
\* normalises to the empty text is reached for every transcription.
C6_MarkerIsSubstring ==
    op = "has_reached_marker" =>
        LET t == IF ignore_nikud THEN normalize_hebrew(arg_a) ELSE arg_a
            m == IF ignore_nikud THEN normalize_hebrew(arg_b) ELSE arg_b
        IN  /\ ret_marker <=>
                  \E i \in 0..Len(t) : \E j \in i..Len(t) : SubSeq(t, i + 1, j) = m
            /\ m = <<>> => ret_marker

\* a marker embedded in a longer word was reported as reached
C6_Witness ==
    /\ op = "has_reached_marker"
    /\ arg_a = <<ALEF, BET>>
    /\ arg_b = <<BET>>
    /\ ret_marker

-----------------------------------------------------------------------------
(* The Streamlit page under every sequence of edits and submissions. *)

InitApp == InitSession /\ IdleLogic /\ IdleReader /\ IdleSegmenter /\ IdleWs

NextApp ==
    \/ \E verse \in VerseTexts, loads \in BOOLEAN : EditReferenceVerse(verse, loads)
    \/ \E marker \in AppTexts, loads \in BOOLEAN : EditMarkerWord(marker, loads)
    \/ \E loads \in BOOLEAN : ClickLoadModel(loads)
    \/ \E heard \in AppTexts, raises \in BOOLEAN, loads \in BOOLEAN :
          Transcribe(heard, raises, loads)
    \/ \E test_input \in AppTexts, loads \in BOOLEAN :
          TestTranscription(test_input, loads)

SpecApp == InitApp /\ [][NextApp]_vars

-----------------------------------------------------------------------------
(* The desktop reader under every sequence of user events and timer ticks. *)

InitReaderSpec ==
    InitReader /\ IdleLogic /\ IdleApp /\ IdleSegmenter /\ IdleWs

NextReader ==
    \/ \E filename \in FileNames : OnFileSelect(filename)
    \/ StartReading
    \/ StopReading
    \/ \E id \in TimerIds, delta \in ClockDifferences : UpdateText(id, delta)

SpecReader == InitReaderSpec /\ [][NextReader]_vars

-----------------------------------------------------------------------------
(* split_into_lines on every text and every width of the bounds. *)

NextSegmenter == CallSplitIntoLines

InitSegmenterSpec ==
    InitSegmenter /\ IdleLogic /\ IdleApp /\ IdleReader /\ IdleWs

SpecSegmenter == InitSegmenterSpec /\ [][NextSegmenter]_vars

-----------------------------------------------------------------------------
(* One /ws/audio session under every sequence of frames. *)

InitWsSpec == InitWs /\ IdleLogic /\ IdleApp /\ IdleReader /\ IdleSegmenter

NextWs ==
    \/ LoadModel
    \/ \E reference \in WsTexts, marker \in WsTexts : WsConfig(reference, marker)
    \/ \E heard \in WsHeard, raises \in BOOLEAN : WsTranscribe(heard, raises)
    \/ WsClear
    \/ WsOtherType
    \/ WsInvalidJson
    \/ WsJsonNotObject
    \/ \E audio_chunk \in WsChunks : WsBytes(audio_chunk)
    \/ WsSendGoesOut
    \/ WsSendReturns
    \/ \E exception \in SendExceptions : WsSendRaises(exception)
    \/ WsDisconnect

SpecWs == InitWsSpec /\ [][NextWs]_vars

-----------------------------------------------------------------------------
(* Properties of the Streamlit page, checked under SpecApp. *)

\* the normalised marker is a contiguous part of the normalised transcription
MarkerIn(t, m) ==
    LET tn == normalize_hebrew(t)
        mn == normalize_hebrew(m)
    IN  \E i \in 0..Len(tn) : \E j \in i..Len(tn) : SubSeq(tn, i + 1, j) = mn

\* C7: the flash is a one-shot latch.  With the marker unchanged, the first
\* submission that contains the marker yields flash = true and a second,
\* identical submission right after it yields flash = false.
C7_FlashIsOneShotLatch ==
    /\ (Len(flash_log) = 1 /\ MarkerIn(flash_log[1].transcription, marker_word)) =>
          flash_log[1].flash
    /\ (Len(flash_log) = 2
            /\ flash_log[1].transcription = flash_log[2].transcription
            /\ MarkerIn(flash_log[2].transcription, marker_word)) =>
          ~flash_log[2].flash

-----------------------------------------------------------------------------
(* Properties of the desktop reader, checked under SpecReader. *)

\* len(self.lines) * 40, in the unit of scroll_position
TotalScroll == Scaled(Len(Val(lines)) * LINE_HEIGHT)

\* the step is a run of update_text: a timer tick, or the call start_reading makes
TickStep ==
    \/ last_handler' = "update_text"
    \/ last_handler' = "start_reading" /\ dialog' = "none"

\* the step is a click on Start that begins playback
StartStep == last_handler' = "start_reading" /\ start_button' = "disabled"

\* C8: between start and stop scroll_position never decreases from one tick to
\* the next and never exceeds len(lines) * 40.
C8_ScrollMonotoneAndSaturating ==
    [][/\ last_handler' = "update_text" =>
             Val(scroll_position') >= Val(scroll_position)
       /\ TickStep => Val(scroll_position') <= TotalScroll']_vars

\* C9: a tick is pending only while scroll_position is below len(lines) * 40;
\* the run of update_text that takes scroll_position to that value or beyond
\* is the one that schedules no further tick; and while no tick is pending,
\* scroll_position, update_id and the timer queue change only by a start.
C9_FinishedExactlyAtTotal ==
    [][/\ pending # {} => Val(scroll_position) < TotalScroll
       /\ TickStep => (pending' = {} <=> Val(scroll_position') >= TotalScroll')
       /\ (pending = {} /\ ~StartStep) =>
             UNCHANGED <<scroll_position, update_id, pending>>]_vars

\* a started reading scrolled to the end: no tick is pending any more
C9_Witness ==
    /\ last_handler = "update_text"
    /\ stop_button = "normal"
    /\ pending = {}
    /\ Len(Val(lines)) > 0
    /\ Val(scroll_position) >= TotalScroll

\* C10: a load with an audio length of at most 2 s or without words fails with
\* an error, and a load that does not fail leaves pixels_per_second defined and
\* positive.
C10_LoadRejectsBadTiming ==
    last_handler = "on_file_select" =>
        IF Val(AUDIO_LENGTH_SECONDS) <= BUFFER_SECONDS \/ Val(total_words) <= 0
        THEN dialog = "Error loading file"
        ELSE /\ dialog = "none"
             /\ pixels_per_second # None
             /\ Val(pixels_per_second) > 0

\* the last load_file ran to its end: none of its divisions raised
LoadedWithoutError ==
    /\ current_file # None
    /\ Val(AUDIO_LENGTH_SECONDS) # 0
    /\ Val(total_words) # 0
    /\ Val(AUDIO_LENGTH_SECONDS) # BUFFER_SECONDS

\* no timing parameters are loaded: no reading was selected, or the last load
\* failed before pixels_per_second was computed
NoTimingLoaded ==
    current_file = None \/ pixels_per_second = None \/ ~LoadedWithoutError

\* C11: a click on Start while no timing parameters are loaded is refused with
\* an error and leaves the reader idle: no audio is started, the Start and Stop
\* buttons keep their state and no tick is scheduled.
C11_StartWithoutTimingIsRefused ==
    [][(last_handler' = "start_reading" /\ NoTimingLoaded) =>
          /\ dialog' # "none"
          /\ UNCHANGED <<music, start_button, stop_button, update_id, pending>>]_vars

\* the step ran stop_reading: the Stop button, or a load_file, which calls it
StopRan == last_handler' \in {"stop_reading", "on_file_select"}

\* C12: stop_reading runs in every state of the reader (never started, running,
\* finished, stopped).  After it no tick is pending, scroll_position is what it
\* was and stays so until the next start, and the state it leaves is one a
\* second stop_reading would not change.
C12_StopAnywhereIdempotent ==
    [][/\ StopRan =>
             /\ pending' = {}
             /\ scroll_position' = scroll_position
             /\ music' = None
             /\ start_button' = "normal"
             /\ stop_button' = "disabled"
             /\ update_id' # None => Val(update_id') \notin pending'
       /\ (pending = {} /\ ~StartStep) => scroll_position' = scroll_position]_vars

\* the Stop button was clicked while a reading was scrolling, with a tick
\* pending: the tick is gone
C12_Witness ==
    /\ last_handler = "stop_reading"
    /\ update_id # None
    /\ pending = {}
    /\ Val(scroll_position) > 0
    /\ Val(scroll_position) < TotalScroll

-----------------------------------------------------------------------------
(* Properties of split_into_lines, checked under SpecSegmenter. *)

\* the whitespace-separated words of the lines, in order
RECURSIVE words_of_lines(_)
words_of_lines(lines_) ==
    IF lines_ = <<>> THEN <<>>
    ELSE str_split(Head(lines_)) \o words_of_lines(Tail(lines_))

\* C13: for chars_per_line >= 1 split_into_lines splits no word: every line is
\* its own words joined by single blanks, and the words of the lines, taken in
\* order, are exactly the word sequence text.split() of the input.
C13_LinesReproduceWords ==
    (seg_called /\ seg_chars_per_line >= 1) =>
        /\ ~seg_raised
        /\ \A i \in 1..Len(seg_lines) :
              seg_lines[i] = str_join(<<SPACE>>, str_split(seg_lines[i]))
        /\ words_of_lines(seg_lines) = str_split(seg_text)

\* three words were wrapped at the second: a line of one word, a line of two
C13_Witness ==
    /\ seg_called
    /\ seg_chars_per_line = 3
    /\ seg_text = <<ALEF, SPACE, BET, SPACE, ALEF>>
    /\ seg_lines = <<<<ALEF>>, <<BET, SPACE, ALEF>>>>

\* C14: split_into_lines called with chars_per_line < 1 fails with an error and
\* returns no lines.
C14_NonPositiveWidthRejected ==
    (seg_called /\ seg_chars_per_line < 1) => (seg_raised /\ seg_lines = <<>>)

\* C16: for chars_per_line >= 1 every line is at most chars_per_line characters
\* long unless it consists of a single word, and every word longer than
\* chars_per_line is a line of its own, whole.
C16_LinesWithinWidth ==
    (seg_called /\ seg_chars_per_line >= 1) =>
        LET words == str_split(seg_text)
        IN  /\ \A i \in 1..Len(seg_lines) :
                  \/ Len(seg_lines[i]) <= seg_chars_per_line
                  \/ Len(str_split(seg_lines[i])) = 1
            /\ \A k \in 1..Len(words) :
                  Len(words[k]) > seg_chars_per_line =>
                      \E i \in 1..Len(seg_lines) : seg_lines[i] = words[k]

\* a word of three letters, longer than the width of 2, got a line of its own
\* and the word after it the next line
C16_Witness ==
    /\ seg_called
    /\ seg_chars_per_line = 2
    /\ seg_text = <<ALEF, ALEF, ALEF, SPACE, BET>>
    /\ seg_lines = <<<<>>, <<ALEF, ALEF, ALEF>>, <<BET>>>>

-----------------------------------------------------------------------------
(* find_word_position, checked under SpecLogic. *)

\* C15: find_word_position returns the 0-based index of the first
\* whitespace-delimited word of the (normalised, if ignore_nikud) text that
\* equals the (normalised) word, and -1 when no word equals it.
C15_FindWordPositionIsFirstIndex ==
    op = "find_word_position" =>
        LET t == IF ignore_nikud THEN normalize_hebrew(arg_a) ELSE arg_a
            w == IF ignore_nikud THEN normalize_hebrew(arg_b) ELSE arg_b
            words == str_split(t)
        IN  /\ ret_position \in -1..(Len(words) - 1)
            /\ ret_position = -1 <=> \A i \in 1..Len(words) : words[i] # w
            /\ ret_position >= 0 =>
                  /\ words[ret_position + 1] = w
                  /\ \A i \in 1..ret_position : words[i] # w

\* the word occurs twice in the text and the first occurrence was reported
C15_Witness ==
    /\ op = "find_word_position"
    /\ arg_a = <<BET, SPACE, BET>>
    /\ arg_b = <<BET>>
    /\ ret_position = 0

-----------------------------------------------------------------------------
(* Further properties of the desktop reader, checked under SpecReader. *)

\* the canvas holds what the last run of update_text drew
RanUpdateText ==
    \/ last_handler = "update_text"
    \/ last_handler = "start_reading" /\ dialog = "none"

\* C17: after every tick, with centerLine = floor(scroll_position / 40), the
\* canvas holds exactly the lines centerLine + i, i in -3..3, whose index lies
\* in 0..len(lines)-1; the line at offset i is drawn at
\* y = 190 + 40*i - (scroll_position mod 40), in black when |i| <= 1 and dimmed
\* (gray50) otherwise.
C17_VisibleLinesAroundCentre ==
    RanUpdateText =>
        LET position == Val(scroll_position)
            centerLine == position \div Scaled(LINE_HEIGHT)
            offset == position % Scaled(LINE_HEIGHT)
            shown == {i \in -3..3 :
                        0 <= centerLine + i /\ centerLine + i < Len(Val(lines))}
        IN  canvas = {[line_index |-> centerLine + i,
                       y |-> Scaled(190 + 40 * i) - offset,
                       fill |-> IF -1 <= i /\ i <= 1 THEN "black" ELSE "gray50"] :
                          i \in shown}

\* what load_file computes from reading f when none of its statements raises
TimingOf(f) ==
    (Len(Readings[f].lines) * LINE_HEIGHT) \div (Readings[f].length - BUFFER_SECONDS)

\* text, word count, lines and pixels_per_second are those of one reading
OneReading ==
    \E f \in FileNames :
        /\ text = Some(Readings[f].text)
        /\ total_words = Some(Readings[f].total_words)
        /\ lines = Some(Readings[f].lines)
        /\ Readings[f].length # BUFFER_SECONDS
        /\ pixels_per_second = Some(TimingOf(f))

\* C18: a load replaces the reading as a whole.  After every load_file, failed
\* or not, text, total_words, lines and pixels_per_second belong to one and
\* the same reading, and a load that failed left them and current_file, the
\* file Start will play, as they were.
C18_LoadIsAtomic ==
    [][last_handler' = "on_file_select" =>
          /\ OneReading'
          /\ dialog' = "Error loading file" =>
                UNCHANGED <<current_file, text, total_words, lines,
                            pixels_per_second>>]_vars

\* the timer keeps delivering the pending callback
TicksKeepComing ==
    WF_vars(\E id \in TimerIds, delta \in ClockDifferences : UpdateText(id, delta))

SpecReaderLive == SpecReader /\ TicksKeepComing

\* the reading scrolled to its end: nothing pending, the whole distance covered
Finished ==
    /\ pending = {}
    /\ scroll_position # None
    /\ lines # None
    /\ Val(scroll_position) >= TotalScroll

\* stop_reading ended the run: the Stop button, or the load of another file
Stopped == pending = {} /\ last_handler \in {"stop_reading", "on_file_select"}

\* the tick time accumulated since the start, each tick counted for at most
\* 0.1 s, is below AUDIO_LENGTH_SECONDS - 2: scroll_position is
\* pixels_per_second times that time
TickTimeBelowDuration ==
    LET whole == Scaled(Val(pixels_per_second)
                            * (Val(AUDIO_LENGTH_SECONDS) - BUFFER_SECONDS))
    IN  IF Val(pixels_per_second) > 0
        THEN Val(scroll_position) < whole
        ELSE Val(scroll_position) > whole

\* C19: once a reading that loaded without error is started, it reaches
\* Finished (scroll_position >= len(lines) * 40, no tick pending) unless it is
\* stopped; and a tick is pending only while the tick time accumulated, each
\* tick counted for at most 0.1 s, is below AUDIO_LENGTH_SECONDS - 2.
C19_EventuallyFinished ==
    /\ (pending # {} /\ LoadedWithoutError) ~> (Finished \/ Stopped)
    /\ []((pending # {} /\ LoadedWithoutError) => TickTimeBelowDuration)

-----------------------------------------------------------------------------
(* A further property of the Streamlit page, checked under SpecApp. *)

\* C20: whenever show_flash is true the transcription submitted last contains
\* the marker word configured now (has_reached_marker), and an edit of the
\* marker word or of the reference verse resets show_flash.
C20_FlashMatchesConfiguration ==
    [][/\ show_flash' => check_for_marker(transcription', marker_word')
       /\ (marker_word' # marker_word \/ reference_verse' # reference_verse) =>
             ~show_flash']_vars

-----------------------------------------------------------------------------
(* A further property of split_into_lines, checked under SpecSegmenter. *)

\* C21: for chars_per_line >= 1 every line split_into_lines returns holds at
\* least one word, also when the first word does not fit the width, so the
\* number of lines, which sets the scroll distance, is the number of lines
\* that show text.
C21_NoEmptyLine ==
    (seg_called /\ seg_chars_per_line >= 1) =>
        /\ \A i \in 1..Len(seg_lines) : str_split(seg_lines[i]) # <<>>
        /\ Len(seg_lines) =
              Cardinality({i \in 1..Len(seg_lines) : seg_lines[i] # <<>>})

-----------------------------------------------------------------------------
(* Further properties of the desktop reader, checked under SpecReader. *)

\* C22: the picture draw_initial_text leaves on the canvas when a reading is
\* loaded is the picture update_text draws at scroll_position 0: the same
\* lines, each at the same y and with the same fill.
C22_InitialPictureIsFirstTick ==
    (last_handler = "on_file_select" /\ dialog = "none") =>
        canvas = visible_items(0, Val(lines))

\* C23: under every sequence of selections, clicks on Start and Stop and timer
\* callbacks at most one update_text callback is pending, and it is the one
\* update_id names: a run of update_text is never followed by two.
C23_AtMostOneTickPending ==
    /\ Cardinality(pending) <= 1
    /\ pending # {} => (update_id # None /\ pending = {Val(update_id)})

\* a reading is scrolling: a tick has run and scheduled the next, which is the
\* only one pending and the one update_id names
C23_Witness ==
    /\ last_handler = "update_text"
    /\ stop_button = "normal"
    /\ Cardinality(pending) = 1
    /\ update_id # None
    /\ Val(update_id) \in pending
    /\ Val(scroll_position) > 0

-----------------------------------------------------------------------------
(* A property of the /ws/audio session, checked under SpecWs. *)

\* the two refusals of a transcribe request
Rejections == {"Whisper model not loaded", "No audio data to transcribe"}

\* the step belongs to a transcribe request that is refused: the endpoint
\* hands a refusal to the send, or waits in the send of one
RefusalStep ==
    /\ ws_last' = "transcribe"
    /\ \/ /\ ws_state = "open"
          /\ ws_outgoing'.type = "error"
          /\ ws_outgoing'.message \in Rejections
       \/ ws_state = "sending"

\* C24: the buffer_size of every audio_received acknowledgement, when the
\* endpoint hands it to the send and when it goes out, is the number of bytes
\* of the binary frames received since the start of the connection, the last
\* clear message or the last transcribe request that reached the
\* transcription, whichever came last; and a transcribe request refused with
\* "Whisper model not loaded" or "No audio data to transcribe" leaves the
\* buffer, the reference text and the marker word as they were, from the
\* frame to the return of the send of the refusal.
C24_AckCountsBytesSinceReset ==
    [][/\ ws_outgoing'.type = "audio_received" =>
             ws_outgoing'.buffer_size = received_since_reset'
       /\ (ws_outgoing.type = "audio_received" /\ ws_outgoing' = NoMessage
              /\ ws_sent' = ws_outgoing) =>
             ws_sent'.buffer_size = received_since_reset'
       /\ RefusalStep =>
             UNCHANGED <<audio_buffer, ws_reference_text, ws_marker_word>>]_vars

\* a transcribe request was refused for want of a model while the buffer held
\* the two bytes received so far, acknowledged with buffer_size 2 before: the
\* refusal is out, the loop goes on, the bytes and the configuration are
\* still there
C24_Witness ==
    /\ ws_last = "transcribe"
    /\ ws_state = "open"
    /\ ws_sent = [type |-> "error", message |-> "Whisper model not loaded"]
    /\ ws_outgoing = NoMessage
    /\ ~whisper_model
    /\ Len(audio_buffer) = 2
    /\ received_since_reset = 2
    /\ ws_marker_word = <<BET>>
    /\ ws_reference_text = <<ALEF, SPACE, BET>>

====
